---- MODULE Spec2Model ----
(***************************************************************************)
(* A model of ssvg.js: the proxy handler (get / set traps), the two proxy  *)
(* constructors and the SSVG session class, over a small model of the host *)
(* document tree (nodes, attributes, child lists) the handler calls into.  *)
(*                                                                         *)
(* JavaScript strings are sequences of one-character strings, so that the  *)
(* regular expression match, the upper-casing of the first character and   *)
(* the lower-casing of the token are computed as the code computes them.   *)
(***************************************************************************)
EXTENDS Integers, Sequences, FiniteSets, TLC

VARIABLES
  nodeCount,    \* the host nodes created so far are 1..nodeCount
  localName,    \* node -> its local name
  attr,         \* node -> its attributes, name -> string
  parent,       \* node -> its parent node, or NoParent
  children,     \* node -> the sequence of its children
  ownRoot,      \* node -> the own property root defineProperty gave it, or NoProp
  sessionRoot,  \* the value of the SSVG instance's field root
  last,         \* the caller's last operation: its inputs and its outcome
  written,      \* node -> attribute name -> the value last written to it
  ops           \* the number of operations performed

vars == <<nodeCount, localName, attr, parent, children, ownRoot, sessionRoot,
          last, written, ops>>

(***************************************************************************)
(* Bounds of the model.                                                    *)
(***************************************************************************)
\* the number of operations the caller performs on the session
MaxOps == 4

(***************************************************************************)
(* Characters and strings.                                                 *)
(***************************************************************************)
LowerChars == <<"a","b","c","d","e","f","g","h","i","j","k","l","m",
                "n","o","p","q","r","s","t","u","v","w","x","y","z">>
UpperChars == <<"A","B","C","D","E","F","G","H","I","J","K","L","M",
                "N","O","P","Q","R","S","T","U","V","W","X","Y","Z">>
DigitChars == <<"0","1","2","3","4","5","6","7","8","9">>

Range(s) == {s[i] : i \in DOMAIN s}

\* String.prototype.toUpperCase on one character
ToUpperChar(c) ==
  IF \E i \in DOMAIN LowerChars : LowerChars[i] = c
  THEN UpperChars[CHOOSE i \in DOMAIN LowerChars : LowerChars[i] = c]
  ELSE c

\* String.prototype.toLowerCase on one character
ToLowerChar(c) ==
  IF \E i \in DOMAIN UpperChars : UpperChars[i] = c
  THEN LowerChars[CHOOSE i \in DOMAIN UpperChars : UpperChars[i] = c]
  ELSE c

ToLowerCase(s) == [i \in DOMAIN s |-> ToLowerChar(s[i])]

\* the regular expression class \w
WordChars ==
  Range(LowerChars) \cup Range(UpperChars) \cup Range(DigitChars) \cup {"_"}

IsWordChar(c) == c \in WordChars

\* the longest run of \w characters of s that starts at position i (\w+ is greedy)
WordRun(s, i) ==
  LET stop == IF \E j \in i..Len(s) : ~IsWordChar(s[j])
              THEN (CHOOSE j \in i..Len(s) :
                      /\ ~IsWordChar(s[j])
                      /\ \A k \in i..(j-1) : IsWordChar(s[k])) - 1
              ELSE Len(s)
  IN SubSeq(s, i, stop)

CreateWord == <<"c","r","e","a","t","e">>

\* does the regular expression match at position i, and with which groups
MatchAt(s, i) ==
  IF /\ i + 6 <= Len(s)
     /\ SubSeq(s, i, i + 5) = CreateWord
     /\ IsWordChar(s[i + 6])
  THEN [ok |-> TRUE, isCreate |-> TRUE, elemName |-> WordRun(s, i + 6)]
  ELSE IF IsWordChar(s[i])
       THEN [ok |-> TRUE, isCreate |-> FALSE, elemName |-> WordRun(s, i)]
       ELSE [ok |-> FALSE, isCreate |-> FALSE, elemName |-> <<>>]

\* propName.match(/(create)?(\w+)/): the leftmost match, or no match (null)
Match(s) ==
  IF \E i \in 1..Len(s) : MatchAt(s, i).ok
  THEN MatchAt(s, CHOOSE i \in 1..Len(s) :
                    /\ MatchAt(s, i).ok
                    /\ \A k \in 1..(i-1) : ~MatchAt(s, k).ok)
  ELSE [ok |-> FALSE, isCreate |-> FALSE, elemName |-> <<>>]

\* elemName[0].toUpperCase() + elemName.slice(1)
UpperElemName(elemName) == <<ToUpperChar(elemName[1])>> \o Tail(elemName)

\* `SVG${upperElemName}Element`
ClassName(elemName) ==
  <<"S","V","G">> \o UpperElemName(elemName) \o <<"E","l","e","m","e","n","t">>

(***************************************************************************)
(* The host environment: the global interface names window.hasOwnProperty  *)
(* is asked about, and the element types with their tag names.             *)
(***************************************************************************)
ElementTypes ==
  { [tag   |-> <<"c","i","r","c","l","e">>,
     iface |-> <<"S","V","G","C","i","r","c","l","e","E","l","e","m","e","n","t">>],
    [tag   |-> <<"g">>,
     iface |-> <<"S","V","G","G","E","l","e","m","e","n","t">>],
    [tag   |-> <<"t","s","p","a","n">>,
     iface |-> <<"S","V","G","T","S","p","a","n","E","l","e","m","e","n","t">>],
    [tag   |-> <<"l","i","n","e","a","r","G","r","a","d","i","e","n","t">>,
     iface |-> <<"S","V","G","L","i","n","e","a","r","G","r","a","d","i","e","n","t",
                 "E","l","e","m","e","n","t">>] }

\* an interface of the host that is the type of no element (an abstract base)
GraphicsInterface ==
  <<"S","V","G","G","r","a","p","h","i","c","s","E","l","e","m","e","n","t">>

WindowInterfaces == {e.iface : e \in ElementTypes} \cup {GraphicsInterface}

\* window.hasOwnProperty(className)
ValidElement(elemName) == ClassName(elemName) \in WindowInterfaces

(***************************************************************************)
(* JavaScript values.                                                      *)
(***************************************************************************)
Undefined == [t |-> "undefined"]
Num(n) == [t |-> "number", n |-> n]
Str(s) == [t |-> "string", s |-> s]
NodeRef(n) == [t |-> "node", id |-> n]
NativeFn(name) == [t |-> "function", name |-> name]
Bound(fn, target) == [t |-> "bound", fn |-> fn, this |-> target]
Creator(instance, isCreate, elemName) ==
  [t |-> "creator", instance |-> instance, isCreate |-> isCreate,
   elemName |-> elemName]
Handle(target) == [t |-> "handle", target |-> target]
Throw(why) == [t |-> "throw", error |-> "TypeError", why |-> why]

\* the SSVG instance, as a proxy target (host nodes are 1, 2, ...)
Session == 0
NoParent == 0
\* the session's top-level container is the first node the host creates
Container == 1
NoProp == [t |-> "none"]

RECURSIVE NumStr(_)
NumStr(n) ==
  IF n < 10 THEN <<DigitChars[n + 1]>>
  ELSE NumStr(n \div 10) \o <<DigitChars[(n % 10) + 1]>>

\* the host's coercion of an attribute value to a string
StringOf(v) ==
  CASE v.t = "string" -> v.s
    [] v.t = "number" -> NumStr(v.n)
    [] OTHER -> <<"u","n","d","e","f","i","n","e","d">>

(***************************************************************************)
(* Names and values the caller uses.                                       *)
(***************************************************************************)
RootName == <<"r","o","o","t">>
ClassAttr == <<"c","l","a","s","s">>
RAttr == <<"r">>
SetAttributeName == <<"s","e","t","A","t","t","r","i","b","u","t","e">>

\* the attribute names of the mappings, and the names the caller assigns to
AttrNames == {RAttr, ClassAttr}
SetNames == AttrNames \cup {RootName}

AttrValues == {Num(50), Str(<<"f","o","o">>)}

\* the property names the caller reads on a handle
PropNames ==
  { <<"c","i","r","c","l","e">>,
    <<"g">>,
    <<"c","r","e","a","t","e","C","i","r","c","l","e">>,
    <<"b","o","g","u","s">>,
    <<"$">>,
    RootName,
    SetAttributeName }

\* attribute mappings: entries in the mapping's own order, with unique keys
AttrMaps ==
  { m \in UNION { [1..k -> AttrNames \X AttrValues] : k \in 0..Cardinality(AttrNames) } :
      \A i, j \in DOMAIN m : i # j => m[i][1] # m[j][1] }

(***************************************************************************)
(* The host document tree.                                                 *)
(***************************************************************************)
Nodes == 1..nodeCount

SvgTag == <<"s","v","g">>

\* a setAttribute that replaces the node's attributes by the one it sets
SetAttributeOnly(a, n, name, v) ==
  [a EXCEPT ![n] = (name :> StringOf(v))]

\* elem.setAttribute(attrName, attrVal) on node n of the attribute store a
SetAttribute(a, n, name, v) ==
  [a EXCEPT ![n] = (name :> StringOf(v)) @@ @]

\* a loop over the entries that stops after the first
ApplyFirstAttr(a, n, m) ==
  IF m = <<>> THEN a ELSE SetAttribute(a, n, m[1][1], m[1][2])

\* for (let [attrName, attrVal] of Object.entries(attrs)) elem.setAttribute(...)
RECURSIVE ApplyAttrs(_, _, _)
ApplyAttrs(a, n, m) ==
  IF m = <<>> THEN a
  ELSE ApplyAttrs(SetAttribute(a, n, m[1][1], m[1][2]), n, Tail(m))

RemoveFrom(seq, e) == SelectSeq(seq, LAMBDA x : x # e)

\* a host call that inserts e before the children of p (prepend)
PrependChildren(ch, par, p, e) ==
  LET detached == IF par[e] = NoParent THEN ch
                  ELSE [ch EXCEPT ![par[e]] = RemoveFrom(@, e)]
  IN [detached EXCEPT ![p] = <<e>> \o @]

\* p.append(e): e leaves its old parent, if any, and becomes the last child of p
AppendChildren(ch, par, p, e) ==
  LET detached == IF par[e] = NoParent THEN ch
                  ELSE [ch EXCEPT ![par[e]] = RemoveFrom(@, e)]
  IN [detached EXCEPT ![p] = Append(@, e)]

AppendParent(par, p, e) == [par EXCEPT ![e] = p]

(***************************************************************************)
(* Properties of the proxy targets: the SSVG instance has the class field  *)
(* root; a wrapped element has the own property root defineProperty made.  *)
(***************************************************************************)
\* Object.getOwnPropertyDescriptor(instance, propName)
GetOwnPropertyDescriptor(instance, propName) ==
  IF propName # RootName THEN NoProp
  ELSE IF instance = Session
       THEN [value |-> sessionRoot, writable |-> TRUE]
       ELSE ownRoot[instance]

\* a property the target inherits: elements inherit the host's setAttribute
InheritedProperty(instance, propName) ==
  IF instance # Session /\ propName = SetAttributeName
  THEN NativeFn("setAttribute")
  ELSE Undefined

\* instance[propName], read on the target itself
PlainGet(instance, propName) ==
  LET desc == GetOwnPropertyDescriptor(instance, propName)
  IN IF desc # NoProp THEN desc.value ELSE InheritedProperty(instance, propName)

IsFunction(v) == v.t \in {"function", "bound", "creator"}

\* a defineProperty that is refused whenever the property exists already
DefineRootOnce(cur, element) ==
  IF cur = NoProp
  THEN [ok |-> TRUE, prop |-> [value |-> NodeRef(element), writable |-> FALSE]]
  ELSE [ok |-> FALSE, prop |-> cur]

\* Object.defineProperty(proxy, 'root', {value: element}): the property is
\* created non-writable and non-configurable; defining it again is accepted
\* only with the same value
DefineRoot(cur, element) ==
  IF cur = NoProp
  THEN [ok |-> TRUE, prop |-> [value |-> NodeRef(element), writable |-> FALSE]]
  ELSE IF cur.value = NodeRef(element)
       THEN [ok |-> TRUE, prop |-> cur]
       ELSE [ok |-> FALSE, prop |-> cur]

(***************************************************************************)
(* SSVGProxyHandler.get                                                    *)
(***************************************************************************)
\* a get trap that returns a function property without binding it
GetTrapUnbound(instance, propName) ==
  LET m == Match(propName)
  IN IF ~m.ok
     THEN Throw("match returned null")
     ELSE IF ~ValidElement(m.elemName)
          THEN PlainGet(instance, propName)
          ELSE Creator(instance, m.isCreate, ToLowerCase(m.elemName))

GetTrap(instance, propName) ==
  LET m == Match(propName)
  IN IF ~m.ok
     THEN Throw("match returned null")
     ELSE IF ~ValidElement(m.elemName)
          THEN LET prop == PlainGet(instance, propName)
               IN IF IsFunction(prop) THEN Bound(prop, instance) ELSE prop
          ELSE Creator(instance, m.isCreate, ToLowerCase(m.elemName))

\* the handles the caller holds: the session's, and one per wrapped element
Handles == {Session} \cup {n \in Nodes : ownRoot[n] # NoProp}

\* reading handle[propName]
Get(h, propName) ==
  /\ last' = [op |-> "get", target |-> h, name |-> propName,
              out |-> GetTrap(h, propName)]
  /\ UNCHANGED <<nodeCount, localName, attr, parent, children, ownRoot,
                 sessionRoot, written>>

(***************************************************************************)
(* The creator function SSVGProxyHandler.get returns, called with attrs.   *)
(* It is called on the result of the read before it: a read changes        *)
(* nothing, and the creator reads instance.root only when it is called, so *)
(* a creator kept for later does what reading it again and calling it at   *)
(* once does.                                                              *)
(***************************************************************************)
\* what a mapping writes: for each of its keys, the value of its last entry
MappingWrites(m) ==
  [name \in {m[i][1] : i \in DOMAIN m} |->
     m[CHOOSE i \in DOMAIN m :
         /\ m[i][1] = name
         /\ \A j \in DOMAIN m : j > i => m[j][1] # name][2]]

\* a creator that appends whatever the accessed name was
AlwaysAppend(isCreate) == TRUE

\* if (! isCreate) instance.root.append(elem)
ShouldAppend(isCreate) == ~isCreate

Call(attrs) ==
  /\ last.op = "get"
  /\ last.out.t = "creator"
  /\ LET c == last.out
         elem == nodeCount + 1
         root == PlainGet(c.instance, RootName)
         failed == ShouldAppend(c.isCreate) /\ root.t # "node"
         wrap == DefineRoot(NoProp, elem)
         newChildren == (elem :> <<>>) @@ children
         newParent == (elem :> NoParent) @@ parent
     IN /\ nodeCount' = elem
        /\ localName' = (elem :> c.elemName) @@ localName
        /\ attr' = ApplyAttrs((elem :> <<>>) @@ attr, elem, attrs)
        /\ written' = (elem :> MappingWrites(attrs)) @@ written
        /\ IF ShouldAppend(c.isCreate) /\ ~failed
           THEN /\ children' = AppendChildren(newChildren, newParent, root.id, elem)
                /\ parent' = AppendParent(newParent, root.id, elem)
           ELSE /\ children' = newChildren
                /\ parent' = newParent
        /\ IF failed
           THEN /\ ownRoot' = (elem :> NoProp) @@ ownRoot
                /\ last' = [op |-> "call", attrs |-> attrs,
                            out |-> Throw("instance.root.append is not a function")]
           ELSE /\ ownRoot' = (elem :> wrap.prop) @@ ownRoot
                /\ last' = [op |-> "call", attrs |-> attrs, out |-> Handle(elem)]
  /\ UNCHANGED sessionRoot

(***************************************************************************)
(* SSVGProxyHandler.set, and what the assignment statement then does: the  *)
(* trap returns nothing, which the proxy reports as a failed assignment,   *)
(* and strict-mode code throws a TypeError on a failed assignment.         *)
(***************************************************************************)
\* the value the set trap returns (the function has no return statement)
SetTrapReturn == Undefined

ToBoolean(v) == v.t \notin {"undefined"}

\* handle[propName] = val, in strict or sloppy code
Set(h, propName, val, strict) ==
  LET desc == GetOwnPropertyDescriptor(h, propName)
      plain == desc # NoProp /\ desc.writable
      noMethod == ~plain /\ InheritedProperty(h, SetAttributeName) = Undefined
      out == IF noMethod THEN Throw("instance.setAttribute is not a function")
             ELSE IF strict /\ ~ToBoolean(SetTrapReturn)
                  THEN Throw("'set' on proxy: trap returned falsish")
                  ELSE val
  IN /\ last' = [op |-> "set", target |-> h, name |-> propName, val |-> val,
                 strict |-> strict, out |-> out]
     /\ IF plain
        THEN /\ IF h = Session
                THEN sessionRoot' = val /\ UNCHANGED ownRoot
                ELSE ownRoot' = [ownRoot EXCEPT ![h].value = val]
                     /\ UNCHANGED sessionRoot
             /\ UNCHANGED <<attr, written>>
        ELSE IF noMethod
             THEN UNCHANGED <<attr, written, sessionRoot, ownRoot>>
             ELSE /\ attr' = SetAttribute(attr, h, propName, val)
                  /\ written' = [written EXCEPT ![h] = (propName :> val) @@ @]
                  /\ UNCHANGED <<sessionRoot, ownRoot>>
     /\ UNCHANGED <<nodeCount, localName, parent, children>>

\* the values the caller assigns: attribute values and, to the session's
\* root, also the node of an element handle it holds
SetValues(h, propName) ==
  AttrValues \cup
  IF h = Session /\ propName = RootName
  THEN {NodeRef(n) : n \in Handles \ {Session}}
  ELSE {}

(***************************************************************************)
(* new SSVGElementProxy(element) on an element that is wrapped already.    *)
(***************************************************************************)
Wrap(element) ==
  LET wrap == DefineRoot(ownRoot[element], element)
  IN /\ ownRoot' = [ownRoot EXCEPT ![element] = wrap.prop]
     /\ last' = [op |-> "wrap", target |-> element,
                 out |-> IF wrap.ok THEN Handle(element)
                        ELSE Throw("Cannot redefine property: root")]
     /\ UNCHANGED <<nodeCount, localName, attr, parent, children,
                    sessionRoot, written>>

(***************************************************************************)
(* new SSVG(attrs): the state after construction.                          *)
(***************************************************************************)
Construct(attrs) ==
  /\ nodeCount = Container
  /\ localName = (Container :> SvgTag)
  /\ attr = ApplyAttrs((Container :> <<>>), Container, attrs)
  /\ written = (Container :> MappingWrites(attrs))
  /\ parent = (Container :> NoParent)
  /\ children = (Container :> <<>>)
  /\ ownRoot = (Container :> NoProp)
  /\ sessionRoot = NodeRef(Container)
  /\ last = [op |-> "new", attrs |-> attrs, out |-> Handle(Session)]
  /\ ops = 0

Init == \E attrs \in AttrMaps : Construct(attrs)

\* one more operation of the caller, within the bound
Step == ops < MaxOps /\ ops' = ops + 1

GetOp == /\ Step
         /\ \E h \in Handles, propName \in PropNames : Get(h, propName)

CallOp == /\ Step
          /\ \E attrs \in AttrMaps : Call(attrs)

SetOp == /\ Step
         /\ \E h \in Handles, propName \in SetNames :
              \E val \in SetValues(h, propName), strict \in BOOLEAN :
                Set(h, propName, val, strict)

WrapOp == /\ Step
          /\ \E element \in Handles \ {Session} : Wrap(element)

Next == GetOp \/ CallOp \/ SetOp \/ WrapOp

Spec == Init /\ [][Next]_vars

\* the caller that never assigns to the name root
SetOtherOp == /\ Step
              /\ \E h \in Handles, propName \in SetNames \ {RootName} :
                   \E val \in SetValues(h, propName), strict \in BOOLEAN :
                     Set(h, propName, val, strict)

NextStable == GetOp \/ CallOp \/ SetOtherOp \/ WrapOp

SpecStable == Init /\ [][NextStable]_vars

(***************************************************************************)
(* Vocabulary of the properties.                                           *)
(***************************************************************************)
\* the step just taken is an operation of the given kind
OpStep(kind) == ops' = ops + 1 /\ last'.op = kind

\* the string form the host gives the values the caller uses
ExpectedString(v) ==
  IF v = Num(50) THEN <<"5","0">>
  ELSE IF v = Str(<<"f","o","o">>) THEN <<"f","o","o">>
  ELSE <<>>

\* the attributes a mapping names, each with the string form of its value
ExpectedAttrs(m) ==
  [name \in {m[i][1] : i \in DOMAIN m} |->
     ExpectedString(m[CHOOSE i \in DOMAIN m : m[i][1] = name][2])]

\* the names K of known element kinds, and the names createK
KnownKinds == {k \in PropNames : ClassName(k) \in WindowInterfaces}

CreateNames ==
  {k \in PropNames : /\ Len(k) > Len(CreateWord)
                     /\ SubSeq(k, 1, Len(CreateWord)) = CreateWord
                     /\ ClassName(SubSeq(k, Len(CreateWord) + 1, Len(k)))
                          \in WindowInterfaces}

KindOf(createName) == SubSeq(createName, Len(CreateWord) + 1, Len(createName))

\* a creator call creates the one node nodeCount + 1 of the given local name
\* and returns a handle whose root is that node
CreatesNode(name) ==
  LET elem == nodeCount + 1
  IN /\ nodeCount' = elem
     /\ localName'[elem] = name
     /\ \A n \in Nodes : localName'[n] = localName[n]
     /\ last'.out = Handle(elem)
     /\ ownRoot'[elem] # NoProp
     /\ ownRoot'[elem].value = NodeRef(elem)

\* the step appends the new node to node under, after the children it has,
\* and changes no other link of the tree
AppendsTo(under) ==
  LET elem == nodeCount + 1
  IN /\ children'[under] = Append(children[under], elem)
     /\ parent'[elem] = under
     /\ children'[elem] = <<>>
     /\ \A n \in Nodes \ {under} : children'[n] = children[n]
     /\ \A n \in Nodes : parent'[n] = parent[n]

C2_CreateDetached ==
  [][ /\ (OpStep("get") /\ last'.name \in CreateNames) => last'.out.t = "creator"
      /\ (OpStep("call") /\ last.name \in CreateNames) =>
            /\ CreatesNode(ToLowerCase(KindOf(last.name)))
            /\ parent'[nodeCount + 1] = NoParent
            /\ children'[nodeCount + 1] = <<>>
            /\ \A n \in Nodes : /\ children'[n] = children[n]
                                /\ parent'[n] = parent[n]
    ]_vars

\* a createCircle call on an element handle whose node has a child already
C2_Witness ==
  /\ last.op = "call"
  /\ last.out.t = "handle"
  /\ parent[last.out.target] = NoParent
  /\ localName[last.out.target] = <<"c","i","r","c","l","e">>
  /\ \A n \in Nodes : \A i \in DOMAIN children[n] : children[n][i] # last.out.target
  /\ children[Container] # <<>>

(***************************************************************************)
(* C3: after a creator call with mapping M, or new SSVG(M), the created    *)
(* node (the container node) has exactly the attributes M names, each with *)
(* the string form of its value; with no mapping it has no attributes.     *)
(***************************************************************************)
C3_ExactlyTheMappedAttributes ==
  /\ last.op = "new" => attr[sessionRoot.id] = ExpectedAttrs(last.attrs)
  /\ (last.op = "call" /\ last.out.t = "handle") =>
        attr[last.out.target] = ExpectedAttrs(last.attrs)

\* a creator call with the two-entry mapping {r: 50, class: 'foo'}
C3_Witness ==
  /\ last.op = "call"
  /\ last.out.t = "handle"
  /\ last.attrs = <<<<RAttr, Num(50)>>, <<ClassAttr, Str(<<"f","o","o">>)>>>>
  /\ attr[last.out.target] = (RAttr :> <<"5","0">>) @@ (ClassAttr :> <<"f","o","o">>)

\* every attribute of every node reads back as the string form of the value
\* last written to it, and the node has no other attribute
ReadsBackLastWritten ==
  \A n \in Nodes :
    /\ DOMAIN attr[n] = DOMAIN written[n]
    /\ \A name \in DOMAIN attr[n] : attr[n][name] = ExpectedString(written[n][name])

\* the step changes no attribute other than attribute name of node n
OnlyAttributeChanged(n, name) ==
  \A m \in Nodes :
    /\ DOMAIN attr'[m] = DOMAIN attr[m] \cup (IF m = n THEN {name} ELSE {})
    /\ \A k \in DOMAIN attr[m] : (m # n \/ k # name) => attr'[m][k] = attr[m][k]

TreeUnchanged == UNCHANGED <<nodeCount, localName, parent, children>>

(***************************************************************************)
(* C4: on an element handle h, h.<name> = value for a name that is no own  *)
(* writable property of the wrapped node (class included, used verbatim)   *)
(* sets attribute <name> of h's node to the string form of value; it       *)
(* changes no other attribute, no other node and no link of the tree. So   *)
(* every attribute reads back as the string form of the last value written *)
(* to it, by a mapping or by an assignment: h.r = 50 reads back as "50".   *)
(***************************************************************************)
C4_AssignmentSetsAttribute ==
  /\ [][ ( /\ OpStep("set")
           /\ last'.target # Session
           /\ LET desc == GetOwnPropertyDescriptor(last'.target, last'.name)
              IN desc = NoProp \/ ~desc.writable ) =>
            /\ last'.name \in DOMAIN attr'[last'.target]
            /\ attr'[last'.target][last'.name] = ExpectedString(last'.val)
            /\ OnlyAttributeChanged(last'.target, last'.name)
            /\ TreeUnchanged
            /\ UNCHANGED <<ownRoot, sessionRoot>>
    ]_vars
  /\ []ReadsBackLastWritten

\* h.r = 50 on a handle whose node was created with r: 'foo' and class: 'foo'
C4_Witness ==
  /\ last.op = "set"
  /\ last.target # Session
  /\ last.name = RAttr
  /\ last.val = Num(50)
  /\ attr[last.target] = (RAttr :> <<"5","0">>) @@ (ClassAttr :> <<"f","o","o">>)

(***************************************************************************)
(* C5: on the session handle s, s.<attrName> = value for a name other than *)
(* root sets attribute attrName of the container node s.root to the string *)
(* form of value, as on an element handle.                                 *)
(***************************************************************************)
C5_SessionAssignmentSetsAttribute ==
  (last.op = "set" /\ last.target = Session /\ last.name # RootName) =>
     /\ sessionRoot.t = "node"
     /\ last.name \in DOMAIN attr[sessionRoot.id]
     /\ attr[sessionRoot.id][last.name] = ExpectedString(last.val)

(***************************************************************************)
(* C6: for every element type with tag name T, reading handle.T yields a   *)
(* creator function that creates a node of local name exactly T; and a     *)
(* creator function is returned only for the names of element types.       *)
(***************************************************************************)
C6_EveryElementTypeByName ==
  \A h \in Handles :
    /\ \A e \in ElementTypes :
         /\ GetTrap(h, e.tag).t = "creator"
         /\ GetTrap(h, e.tag).elemName = e.tag
    /\ \A e \in ElementTypes \cup {[tag |-> <<"g","r","a","p","h","i","c","s">>]} :
         GetTrap(h, e.tag).t = "creator" => e.tag \in {x.tag : x \in ElementTypes}

(***************************************************************************)
(* C7: on any handle, handle.root = v is a normal property assignment and  *)
(* is never forwarded to the attribute-set call: it creates or changes no  *)
(* attribute of any node.                                                  *)
(***************************************************************************)
C7_RootAssignmentSetsNoAttribute ==
  [][ (OpStep("set") /\ last'.name = RootName) => attr' = attr ]_vars

(***************************************************************************)
(* C8: as long as the caller assigns to no name root, session.root reads   *)
(* as the container created with the session and .root of an element       *)
(* handle reads as the node it was wrapped around; no read creates a node, *)
(* and wrapping a wrapped node again neither fails nor changes its root.   *)
(***************************************************************************)
RootsStable ==
  /\ GetTrap(Session, RootName) = NodeRef(Container)
  /\ \A h \in Handles \ {Session} : GetTrap(h, RootName) = NodeRef(h)

C8_RootStable ==
  /\ []RootsStable
  /\ [][ /\ OpStep("get") =>
              /\ TreeUnchanged
              /\ UNCHANGED <<ownRoot, sessionRoot>>
              /\ (last'.name = RootName =>
                    last'.out = IF last'.target = Session
                                THEN NodeRef(Container)
                                ELSE NodeRef(last'.target))
         /\ OpStep("wrap") =>
              /\ last'.out = Handle(last'.target)
              /\ ownRoot' = ownRoot
       ]_vars

\* an element wrapped a second time: the wrap succeeds and both roots read as before
C8_Witness ==
  /\ last.op = "wrap"
  /\ last.out = Handle(last.target)
  /\ GetTrap(last.target, RootName) = NodeRef(last.target)
  /\ GetTrap(Session, RootName) = NodeRef(Container)
  /\ parent[last.target] = Container

(***************************************************************************)
(* C9: reading on a handle a name whose candidate interface is no known    *)
(* host interface creates no node, changes no attribute and no link, and   *)
(* returns what reading the name on the target itself returns (a function  *)
(* bound to the target), never a creator function or an element handle.    *)
(***************************************************************************)
UnknownToken(propName) ==
  Match(propName).ok /\ ClassName(Match(propName).elemName) \notin WindowInterfaces

C9_UnknownTokenFallsThrough ==
  [][ (OpStep("get") /\ UnknownToken(last'.name)) =>
        /\ TreeUnchanged
        /\ UNCHANGED <<attr, ownRoot, sessionRoot, written>>
        /\ last'.out.t \notin {"creator", "handle"}
        /\ LET direct == PlainGet(last'.target, last'.name)
           IN last'.out = IF direct.t = "function"
                          THEN Bound(direct, last'.target)
                          ELSE direct
        /\ (last'.name = <<"b","o","g","u","s">> => last'.out = Undefined)
    ]_vars

\* reading setAttribute on an element handle gives the host's method, bound
C9_Witness ==
  /\ last.op = "get"
  /\ last.name = SetAttributeName
  /\ last.target # Session
  /\ last.out = Bound(NativeFn("setAttribute"), last.target)

(***************************************************************************)
(* C10: an assignment through a handle whose forwarded host call (or whose *)
(* normal property assignment) raises nothing completes without an error,  *)
(* in strict code too.                                                     *)
(***************************************************************************)
C10_AssignmentRaisesOnlyHostErrors ==
  (last.op = "set" /\ (last.target # Session \/ last.name = RootName)) =>
     last.out.t # "throw"

====
